---------------------------- MODULE Spec2Model ----------------------------
(***************************************************************************)
(* The scroll-driven particle morph of my-site: BackgroundParticles,       *)
(* ClickHandler, CustomCursor and the App state they share, in both        *)
(* versions the repository holds:                                          *)
(*   "three"  src/unnamed/part_000  zones cloud < model < cube             *)
(*   "four"   src/src/App.js        zones cloud < model < cube < blank     *)
(*                                                                         *)
(* Numbers.  The code computes in JavaScript doubles; the model computes   *)
(* in exact fixed point, so every statement below is a statement about the *)
(* arithmetic the code denotes, not about rounding.                         *)
(*   progress    hundredths                (0.33 is 33)                     *)
(*   positions   1 / PosScale                                               *)
(*   velocities  1 / VelScale              (rotation angles too)            *)
(*   cursor      1 / CurScale of half the viewport at the cursor plane      *)
(* A blend factor is a reduced fraction [n, d].  A frame is only taken     *)
(* where its divisions are exact (TickExact), so no step of the model      *)
(* rounds.                                                                  *)
(***************************************************************************)
EXTENDS Integers, Sequences, FiniteSets, TLC

\* ------------------------------------------------------------- bounds

\* Particles modelled (the code's count is 10000; every flat index is
\* treated alike and independently, lines 141-159 / 152-167).
Count == 1
\* Decimal digits of a position's fraction.
PosDigits == 6
\* Friction frames a velocity's fixed-point unit resolves exactly.
VelTicks == 3
\* Frames per behaviour, per specification.
MaxZoneTicks == 2
MaxMorphTicks == 3
MaxRotTicks == 2
\* Drag releases per behaviour.
MaxGestures == 2
\* Math.random() yields k / 2^RandBits, 0 <= k < 2^RandBits.
RandBits == 1
\* Frames of the cursor follower per behaviour.
MaxCursorTicks == 2
\* Runs of ClickHandler's effect, and events after teardown, per behaviour.
MaxEffectRuns == 3
MaxLateEvents == 2

PosScale == 10 ^ PosDigits
VelScale == 20 * (50 ^ VelTicks)
PUnit == 10 * 10
RandDen == 2 ^ RandBits
CurScale == 100 ^ MaxCursorTicks

\* ------------------------------------------------------------ helpers

Abs(x) == IF x < 0 THEN -x ELSE x

RECURSIVE GCD(_, _)
GCD(a, b) == IF b = 0 THEN a ELSE GCD(b, a % b)

\* The fraction n / d (d > 0), reduced.
Frac(n, d) ==
    LET g == GCD(Abs(n), d)
    IN  [n |-> n \div g, d |-> d \div g]

\* x * f for a fraction f, and whether it is a whole number of units.
ExactScale(x, f) == x % f.d = 0
Scale(x, f) == (x \div f.d) * f.n

Clamp(value, lo, hi) ==
    LET m == IF value < hi THEN value ELSE hi
    IN  IF m > lo THEN m ELSE lo

\* n / d clamped to [0, 1] (d > 0).
ClampFrac(n, d) == Frac(Clamp(n, 0, d), d)

\* THREE.MathUtils.lerp(x, y, t) = (1 - t) * x + t * y.
Lerp(x, y, t) == x + Scale(y - x, t)

\* --------------------------------------------------- configuration

Variants == {"three", "four"}

MODEL_CONFIG ==
    [scale |-> Frac(5, 10), rotation |-> <<0, 0, 0>>,
     autoRotateSpeed |-> Frac(1, 1000)]

ROTATION_CONFIG ==
    [friction |-> Frac(98, 100), clickForce |-> Frac(5, 100),
     maxVelocity |-> Frac(15, 100)]

CURSOR_CONFIG ==
    [outerRingSpeed |-> Frac(5, 100), innerDotSpeed |-> Frac(8, 100),
     rotationSpeed |-> Frac(1, 100)]

\* The relaxation coefficient of the frame loop, 0.1.
Alpha == Frac(1, 10)

maxVelocity == Scale(VelScale, ROTATION_CONFIG.maxVelocity)
autoRotateSpeed == Scale(VelScale, MODEL_CONFIG.autoRotateSpeed)
rotationSpeed == Scale(VelScale, CURSOR_CONFIG.rotationSpeed)

\* The zones of a version, in scroll order.
ZoneOrder(v) ==
    IF v = "three" THEN <<"cloud", "model", "cube">>
    ELSE <<"cloud", "model", "cube", "blank">>

ZoneRank(v, z) == CHOOSE k \in 1..Len(ZoneOrder(v)) : ZoneOrder(v)[k] = z

\* ------------------------------------------------- zone classifier

\* The lower threshold taken on the wrong side: 0.2 itself still cloud.
ZoneThreeInclusive(p) ==
    IF p <= 20 THEN "cloud"
    ELSE IF p <= 60 THEN "model"
    ELSE "cube"

\* part_000, lines 129-136.
ZoneThree(p) ==
    IF p < 20 THEN "cloud"
    ELSE IF p >= 20 /\ p <= 60 THEN "model"
    ELSE "cube"

\* The tests for cube and model in the wrong order of thresholds.
ZoneFourSwapped(p) ==
    IF p > 55 THEN "blank"
    ELSE IF p > 30 THEN "model"
    ELSE IF p > 15 THEN "cube"
    ELSE "cloud"

\* App.js, lines 146-149.
ZoneFour(p) ==
    IF p > 55 THEN "blank"
    ELSE IF p > 30 THEN "cube"
    ELSE IF p > 15 THEN "model"
    ELSE "cloud"

NewZone(v, p) == IF v = "three" THEN ZoneThree(p) ELSE ZoneFour(p)

\* --------------------------------------------------- blend schedule

\* The branch of the target computation progress p takes.
SegmentThree(p) ==
    IF p <= 33 THEN "cloud-model"
    ELSE IF p <= 66 THEN "model-cube"
    ELSE "cube"

SegmentFour(p) ==
    IF p <= 0 THEN "cloud-model"
    ELSE IF p <= 35 THEN "model-cube"
    ELSE IF p <= 85 THEN "cube"
    ELSE "blank"

Segment(v, p) == IF v = "three" THEN SegmentThree(p) ELSE SegmentFour(p)

\* The factor the branch hands to lerp (or, in "blank", multiplies the
\* offset by); 0 where the branch holds the cube.
LocalPThree(p) ==
    IF p <= 33 THEN ClampFrac(p * 3, PUnit)
    ELSE IF p <= 66 THEN ClampFrac((p - 33) * 3, PUnit)
    ELSE Frac(0, 1)

LocalPFour(p) ==
    IF p <= 0 THEN Frac(p * 4, PUnit)
    ELSE IF p <= 35 THEN Frac((p - 25) * 5, PUnit)
    ELSE IF p <= 85 THEN Frac(0, 1)
    ELSE ClampFrac((p - 85) * 667, PUnit * 100)

LocalP(v, p) == IF v = "three" THEN LocalPThree(p) ELSE LocalPFour(p)

\* The blank branch's full offset, 20.
BlankOffset == 20 * PosScale

\* The target of one flat index, from the three arrays' values at it.
TargetPos(v, p, cl, ms, cb) ==
    LET seg == Segment(v, p)
        t == LocalP(v, p)
    IN  IF seg = "cloud-model" THEN Lerp(cl, ms, t)
        ELSE IF seg = "model-cube" THEN Lerp(ms, cb, t)
        ELSE IF seg = "cube" THEN cb
        ELSE cb + Scale(BlankOffset, t)

TargetExact(v, p, cl, ms, cb) ==
    LET seg == Segment(v, p)
        t == LocalP(v, p)
    IN  IF seg = "cloud-model" THEN ExactScale(ms - cl, t)
        ELSE IF seg = "model-cube" THEN ExactScale(cb - ms, t)
        ELSE IF seg = "cube" THEN TRUE
        ELSE ExactScale(BlankOffset, t)

\* pos[i] += (target - pos[i]) * 0.1
Relax(pos, target) == pos + Scale(target - pos, Alpha)
RelaxExact(pos, target) == ExactScale(target - pos, Alpha)

\* ------------------------------------------------ shape construction

Axes == 1..3
Flat == 1..(3 * Count)
\* Math.random() results, in the order one pass of the loop asks for them:
\* per particle three for the cloud, three for the model (the first picks
\* the vertex when there are vertices), three for the cube.
DrawSlots == 1..(9 * Count)
Draws == [DrawSlots -> 0..(RandDen - 1)]

ParticleOf(j) == (j - 1) \div 3
AxisOf(j) == ((j - 1) % 3) + 1

\* (Math.random() - 0.5) * span, for the draw k / RandDen.
Centered(k, span) == Scale(span * PosScale, Frac(2 * k - RandDen, 2 * RandDen))

CloudSpan(a) == IF a = 1 THEN 15 ELSE 10
CubeSpan == 4

\* Vector3.applyEuler for angles in quarter turns, order XYZ.
RECURSIVE TurnX(_, _)
TurnX(pt, q) == IF q = 0 THEN pt ELSE TurnX(<<pt[1], -pt[3], pt[2]>>, q - 1)
RECURSIVE TurnY(_, _)
TurnY(pt, q) == IF q = 0 THEN pt ELSE TurnY(<<pt[3], pt[2], -pt[1]>>, q - 1)
RECURSIVE TurnZ(_, _)
TurnZ(pt, q) == IF q = 0 THEN pt ELSE TurnZ(<<-pt[2], pt[1], pt[3]>>, q - 1)
ApplyEuler(pt, e) == TurnX(TurnY(TurnZ(pt, e[3]), e[2]), e[1])

\* randomPoint.clone().multiplyScalar(MODEL_CONFIG.scale)
MultiplyScalar(pt, f) == [a \in Axes |-> Scale(pt[a] * PosScale, f)]

\* tempPoints[Math.floor(Math.random() * tempPoints.length)]
RandomPoint(src, k) == src[((k * Len(src)) \div RandDen) + 1]

\* The model point of a particle with vertices at hand; part_000 turns it
\* by the configured Euler angles, App.js does not.
ScaledPoint(v, src, k) ==
    LET scaled == MultiplyScalar(RandomPoint(src, k), MODEL_CONFIG.scale)
    IN  IF v = "three" THEN ApplyEuler(scaled, MODEL_CONFIG.rotation)
        ELSE scaled

\* What the loop stores at flat index j of the model array.  Without
\* vertices part_000 stores a draw; App.js stores nothing and the
\* Float32Array keeps its 0.
ModelValue(v, src, rnd, j) ==
    LET base == 9 * ParticleOf(j)
    IN  IF Len(src) > 0 THEN ScaledPoint(v, src, rnd[base + 4])[AxisOf(j)]
        ELSE IF v = "three"
             THEN Scale(PosScale, Frac(rnd[base + 3 + AxisOf(j)], RandDen))
        ELSE 0

\* The flat indices of the model array the loop assigns.
ModelAssigned(v, src) ==
    IF Len(src) > 0 \/ v = "three" THEN Flat ELSE {}

\* useMemo: the three arrays.
BuildShapes(v, src, rnd) ==
    [cl |-> [j \in Flat |->
                Centered(rnd[9 * ParticleOf(j) + AxisOf(j)], CloudSpan(AxisOf(j)))],
     ms |-> [j \in Flat |-> ModelValue(v, src, rnd, j)],
     cb |-> [j \in Flat |->
                Centered(rnd[9 * ParticleOf(j) + 6 + AxisOf(j)], CubeSpan)]]

\* -------------------------------------------------------------- state

VARIABLES
    variant,          \* which version of the component runs
    tempPoints,       \* the vertices read from the scene
    buffers,          \* the Float32Arrays by name: cl, ms, cb from useMemo, and
                      \* attr, a copy of cl the Points element may hold instead
    constructed,      \* cl, ms, cb as useMemo returned them
    msAssigned,       \* flat indices of ms the construction loop assigned
    pointsRef,        \* "null", or the array that is
                      \* pointsRef.current.geometry.attributes.position.array
    scrollProgress,   \* scrollProgress.current, in hundredths
    activeZone,       \* the activeZone prop the frame callback closed over
    appZone,          \* App's activeZone state
    reported,         \* the arguments of the setZone calls, in order
    rotationVelocity, \* rotationVelocity.current
    rotation,         \* pointsRef.current.rotation
    mouseDownPos,     \* mouseDownPos.current
    size,             \* useThree().size
    ticks,            \* frames run
    gestures,         \* mouseup events handled
    tickP,            \* p of the last frame (-1: none yet)
    newZone,          \* newZone of the last frame
    prevTickP,        \* the same of the frame before it
    prevNewZone,
    segment,          \* the target branch the last frame took
    localP,           \* the factor it used
    targetPos,        \* and the targets it computed, by flat index
    mouse,            \* CustomCursor's mouse.current
    outerRing,        \* the ring mesh: position x, y and rotation.z
    innerDot,         \* the dot mesh: position x, y
    cursorRefs,       \* outerRingRef.current and innerDotRef.current are set
    isTouchDevice,    \* CustomCursor's isTouchDevice state (part_000)
    cursorTicks,      \* cursor frames that got past the ref test
    listeners,        \* the live subscriptions, in the order they were made
    mounted,          \* the App is mounted
    effectRuns,       \* runs of ClickHandler's effect
    lateEvents        \* events dispatched after teardown

shapeVars == <<variant, tempPoints, constructed, msAssigned, pointsRef>>
zoneVars == <<activeZone, appZone, reported>>
rotVars == <<rotationVelocity, rotation>>
mouseVars == <<mouseDownPos, size, gestures>>
frameVars ==
    <<ticks, tickP, newZone, prevTickP, prevNewZone, segment, localP, targetPos>>
cursorVars ==
    <<mouse, outerRing, innerDot, cursorRefs, isTouchDevice, cursorTicks>>
sessionVars == <<listeners, mounted, effectRuns, lateEvents>>
vars == <<shapeVars, buffers, scrollProgress, zoneVars, rotVars, mouseVars,
          frameVars, cursorVars, sessionVars>>

Empty == [cl |-> <<>>, ms |-> <<>>, cb |-> <<>>, attr |-> <<>>]

\* <Points positions={cloud}>: the geometry's position array is the cloud
\* array itself ("cl") or the element's own copy of it ("attr"); which one
\* is the Points element's doing, and both are modelled.
PositionArrays == {"cl", "attr"}

\* The arrays once the component has rendered.
MountedBuffers(v, src, rnd, ref) ==
    LET b == BuildShapes(v, src, rnd)
    IN  [cl |-> b.cl, ms |-> b.ms, cb |-> b.cb,
         attr |-> IF ref = "attr" THEN b.cl ELSE <<>>]

Sources ==
    {<<>>, << <<2, 0, -2>> >>, << <<2, 0, -2>>, <<0, 4, 2>> >>}

\* The construction outcome the behaviours below start from: two vertices,
\* and draws that make the three shapes differ at every index (per particle
\* the cloud is (0, -5, -5), the model (1, 0, -1), the cube (-2, -2, -2)).
InitSources == {<< <<2, 0, -2>>, <<0, 4, 2>> >>}
InitDraws ==
    {[s \in DrawSlots |-> IF (s - 1) % 9 = 0 THEN RandDen \div 2 ELSE 0]}

\* A subscription: the event, the effect run that made the callback, and
\* the size the callback closed over (NoSize where it closes over none).
NoSize == [width |-> 0, height |-> 0]
Handler(type, run, sz) == [type |-> type, run |-> run, size |-> sz]

\* A remove that leaves the callback subscribed.
RemoveNothing(ls, h) == ls

\* window.addEventListener (a callback already there is not added again),
\* window.removeEventListener; ScrollTrigger.create and st.kill() likewise.
AddEventListener(ls, h) ==
    IF \E k \in 1..Len(ls) : ls[k] = h THEN ls ELSE Append(ls, h)
RemoveEventListener(ls, h) == SelectSeq(ls, LAMBDA l : l # h)

HandlersOf(ls, type) == SelectSeq(ls, LAMBDA l : l.type = type)

\* ClickHandler's effect body and its cleanup, for the run-th run.
ClickSubscribe(ls, run, sz) ==
    AddEventListener(AddEventListener(ls, Handler("mousedown", run, sz)),
                     Handler("mouseup", run, sz))
ClickCleanup(ls, run, sz) ==
    RemoveEventListener(RemoveEventListener(ls, Handler("mousedown", run, sz)),
                        Handler("mouseup", run, sz))

\* CustomCursor's effect and BackgroundParticles' ScrollTrigger effect run
\* once per mount.
CursorSubscribe(ls) == AddEventListener(ls, Handler("mousemove", 1, NoSize))
CursorCleanup(ls) == RemoveEventListener(ls, Handler("mousemove", 1, NoSize))
ScrollSubscribe(ls) == AddEventListener(ls, Handler("scroll", 1, NoSize))
ScrollCleanup(ls) == RemoveEventListener(ls, Handler("scroll", 1, NoSize))

\* What the cursor renders: part_000 nothing on a touch device, App.js
\* nothing in the blank zone.
CursorRendered(v, zone, touch) ==
    IF v = "three" THEN ~touch ELSE zone # "blank"

\* A mesh as it is created: position [0, 0, 4.5], no rotation.
NewRing == [x |-> 0, y |-> 0, rotation |-> 0]
NewDot == [x |-> 0, y |-> 0]

Rest ==
    /\ mouse = [x |-> 0, y |-> 0]
    /\ outerRing = NewRing
    /\ innerDot = NewDot
    /\ isTouchDevice \in IF variant = "three" THEN BOOLEAN ELSE {FALSE}
    /\ cursorRefs = CursorRendered(variant, "cloud", isTouchDevice)
    /\ cursorTicks = 0
    /\ mounted = TRUE
    /\ effectRuns = 1
    /\ lateEvents = 0
    /\ scrollProgress = 0
    /\ activeZone = "cloud"
    /\ appZone = "cloud"
    /\ reported = <<>>
    /\ rotationVelocity = [x |-> 0, y |-> 0]
    /\ rotation = [x |-> 0, y |-> 0]
    /\ mouseDownPos = [x |-> 0, y |-> 0]
    /\ size = [width |-> 800, height |-> 600]
    /\ ticks = 0
    /\ gestures = 0
    /\ tickP = -1
    /\ newZone = "none"
    /\ prevTickP = -1
    /\ prevNewZone = "none"
    /\ segment = "none"
    /\ localP = Frac(0, 1)
    /\ targetPos = [i \in Flat |-> 0]

\* The component is suspended on its asset: nothing is built yet.
InitLoading ==
    /\ variant \in Variants
    /\ tempPoints \in Sources
    /\ buffers = Empty
    /\ constructed = Empty
    /\ msAssigned = {}
    /\ pointsRef = "null"
    /\ Rest
    /\ listeners =
          CursorSubscribe(ClickSubscribe(<<>>, 1, [width |-> 800, height |-> 600]))

\* The component has rendered once.
Init ==
    /\ variant \in Variants
    /\ tempPoints \in InitSources
    /\ pointsRef \in PositionArrays
    /\ \E rnd \in InitDraws :
          buffers = MountedBuffers(variant, tempPoints, rnd, pointsRef)
    /\ constructed = [buffers EXCEPT !.attr = <<>>]
    /\ msAssigned = ModelAssigned(variant, tempPoints)
    /\ Rest
    /\ listeners =
          ScrollSubscribe(
              CursorSubscribe(ClickSubscribe(<<>>, 1, [width |-> 800, height |-> 600])))

\* ------------------------------------------------------------ actions

\* First render of BackgroundParticles: useMemo builds the arrays, the
\* Points element takes the cloud as its positions, and the effect creates
\* the ScrollTrigger.
Mount(rnd, ref) ==
    /\ mounted
    /\ pointsRef = "null"
    /\ listeners' = ScrollSubscribe(listeners)
    /\ buffers' = MountedBuffers(variant, tempPoints, rnd, ref)
    /\ constructed' = [buffers' EXCEPT !.attr = <<>>]
    /\ msAssigned' = ModelAssigned(variant, tempPoints)
    /\ pointsRef' = ref
    /\ UNCHANGED <<variant, tempPoints, scrollProgress, zoneVars, rotVars,
                   mouseVars, frameVars, cursorVars, mounted, effectRuns,
                   lateEvents>>

\* ScrollTrigger's onUpdate.
ScrollUpdate(p) ==
    /\ pointsRef # "null"
    /\ scrollProgress' = p
    /\ UNCHANGED <<shapeVars, buffers, zoneVars, rotVars, mouseVars, frameVars,
                   cursorVars, sessionVars>>

\* App renders again with its current zone: BackgroundParticles gets the
\* new prop, and App.js's CustomCursor drops its meshes in the blank zone
\* and creates new ones when it is left.
Render ==
    /\ pointsRef # "null"
    /\ activeZone # appZone
    /\ activeZone' = appZone
    /\ cursorRefs' = CursorRendered(variant, appZone, isTouchDevice)
    /\ IF cursorRefs' /\ ~cursorRefs
          THEN outerRing' = NewRing /\ innerDot' = NewDot
          ELSE UNCHANGED <<outerRing, innerDot>>
    /\ UNCHANGED <<shapeVars, buffers, scrollProgress, appZone, reported,
                   rotVars, mouseVars, frameVars, mouse, isTouchDevice,
                   cursorTicks, sessionVars>>

\* if (activeZone !== newZone) setZone(newZone)
ZoneChanged(active, zone) == active # zone

\* Friction with a floor: a component slower than one full-width drag's
\* impulse is stopped.
FrictionWithFloor(v) ==
    IF Abs(v) < Scale(VelScale, ROTATION_CONFIG.clickForce) THEN 0
    ELSE Scale(v, ROTATION_CONFIG.friction)

\* rotationVelocity.current.x *= ROTATION_CONFIG.friction
Friction(v) == Scale(v, ROTATION_CONFIG.friction)

\* The loop's targets, and the live array after it.
Targets(v, p, b) ==
    [i \in Flat |-> TargetPos(v, p, b.cl[i], b.ms[i], b.cb[i])]
Relaxed(v, p, b, ref) ==
    [i \in Flat |-> Relax(b[ref][i], Targets(v, p, b)[i])]

\* The frame's arithmetic is exact in the model's units.
TickExact ==
    IF pointsRef = "null" THEN TRUE
    ELSE
        /\ \A i \in Flat :
              /\ TargetExact(variant, scrollProgress,
                             buffers.cl[i], buffers.ms[i], buffers.cb[i])
              /\ RelaxExact(buffers[pointsRef][i],
                            TargetPos(variant, scrollProgress,
                                      buffers.cl[i], buffers.ms[i], buffers.cb[i]))
        /\ ExactScale(rotationVelocity.x, ROTATION_CONFIG.friction)
        /\ ExactScale(rotationVelocity.y, ROTATION_CONFIG.friction)

\* The useFrame callback of BackgroundParticles.
Tick ==
    IF pointsRef = "null" THEN UNCHANGED vars
    ELSE
        LET p == scrollProgress
            zone == NewZone(variant, p)
        IN  /\ IF ZoneChanged(activeZone, zone)
                  THEN /\ appZone' = zone
                       /\ reported' = Append(reported, zone)
                  ELSE UNCHANGED <<appZone, reported>>
            /\ buffers' = [buffers EXCEPT
                              ![pointsRef] = Relaxed(variant, p, buffers, pointsRef)]
            /\ rotation' =
                  [y |-> rotation.y + autoRotateSpeed + rotationVelocity.y,
                   x |-> rotation.x + rotationVelocity.x]
            /\ rotationVelocity' =
                  [x |-> Friction(rotationVelocity.x),
                   y |-> Friction(rotationVelocity.y)]
            /\ ticks' = ticks + 1
            /\ prevTickP' = tickP
            /\ prevNewZone' = newZone
            /\ tickP' = p
            /\ newZone' = zone
            /\ segment' = Segment(variant, p)
            /\ localP' = LocalP(variant, p)
            /\ targetPos' = Targets(variant, p, buffers)
            /\ UNCHANGED <<shapeVars, scrollProgress, activeZone, mouseVars,
                           cursorVars, sessionVars>>

\* ClickHandler's mousedown listener.
MouseDown(cx, cy) ==
    /\ mouseDownPos' = [x |-> cx, y |-> cy]
    /\ UNCHANGED <<shapeVars, buffers, scrollProgress, zoneVars, rotVars,
                   size, gestures, frameVars, cursorVars, sessionVars>>

\* (delta / extent) * ROTATION_CONFIG.clickForce
Force(delta, extent) ==
    Scale(Scale(VelScale, ROTATION_CONFIG.clickForce), Frac(delta, extent))
ForceExact(delta, extent) ==
    ExactScale(Scale(VelScale, ROTATION_CONFIG.clickForce), Frac(delta, extent))

\* What mouseup leaves in a velocity component: part_000 clamps the sum to
\* [-maxVelocity, maxVelocity], App.js stores the sum.
Impulse(v, vel, force) ==
    IF v = "three" THEN Clamp(vel + force, -maxVelocity, maxVelocity)
    ELSE vel + force

\* ClickHandler's mouseup listener.
MouseUp(cx, cy) ==
    /\ rotationVelocity' =
          [y |-> Impulse(variant, rotationVelocity.y,
                         Force(cx - mouseDownPos.x, size.width)),
           x |-> Impulse(variant, rotationVelocity.x,
                         Force(cy - mouseDownPos.y, size.height))]
    /\ gestures' = gestures + 1
    /\ UNCHANGED <<shapeVars, buffers, scrollProgress, zoneVars, rotation,
                   mouseDownPos, size, frameVars, cursorVars, sessionVars>>

MouseExact(cx, cy) ==
    /\ ForceExact(cx - mouseDownPos.x, size.width)
    /\ ForceExact(cy - mouseDownPos.y, size.height)

\* CustomCursor's mousemove listener: the pointer in [-1, 1] x [-1, 1]
\* (the canvas fills the window: window.innerWidth is size.width).
MouseCoord(c, extent) == Scale(2 * CurScale, Frac(c, extent)) - CurScale
MouseMove(cx, cy) ==
    /\ mouse' = [x |-> MouseCoord(cx, size.width),
                 y |-> -MouseCoord(cy, size.height)]
    /\ UNCHANGED <<shapeVars, buffers, scrollProgress, zoneVars, rotVars,
                   mouseVars, frameVars, outerRing, innerDot, cursorRefs,
                   isTouchDevice, cursorTicks, sessionVars>>

\* The lerp factors of the cursor frame: part_000 reads CURSOR_CONFIG,
\* App.js has 0.05 and 0.1 in place.
RingSpeed(v) ==
    IF v = "three" THEN CURSOR_CONFIG.outerRingSpeed ELSE Frac(5, 100)
DotSpeed(v) ==
    IF v = "three" THEN CURSOR_CONFIG.innerDotSpeed ELSE Frac(1, 10)

\* What the cursor frame adds to the ring's rotation.z: part_000 the
\* configured speed, App.js nothing.
RingSpin(v) == IF v = "three" THEN rotationSpeed ELSE 0

\* The target is mouse * (viewport / 2); positions are kept in units of
\* half the viewport, so the target is mouse itself.
CursorExact ==
    \A c \in {"x", "y"} :
        /\ ExactScale(mouse[c] - outerRing[c], RingSpeed(variant))
        /\ ExactScale(mouse[c] - innerDot[c], DotSpeed(variant))

\* The useFrame callback of CustomCursor.
CursorTick ==
    IF ~cursorRefs THEN UNCHANGED vars
    ELSE
        /\ outerRing' =
              [x |-> Lerp(outerRing.x, mouse.x, RingSpeed(variant)),
               y |-> Lerp(outerRing.y, mouse.y, RingSpeed(variant)),
               rotation |-> outerRing.rotation + RingSpin(variant)]
        /\ innerDot' =
              [x |-> Lerp(innerDot.x, mouse.x, DotSpeed(variant)),
               y |-> Lerp(innerDot.y, mouse.y, DotSpeed(variant))]
        /\ cursorTicks' = cursorTicks + 1
        /\ UNCHANGED <<shapeVars, buffers, scrollProgress, zoneVars, rotVars,
                       mouseVars, frameVars, mouse, cursorRefs, isTouchDevice,
                       sessionVars>>

\* The viewport changes size: ClickHandler renders with the new size, the
\* effect's cleanup removes the old callbacks and the effect adds new ones.
Resize(sz) ==
    /\ mounted
    /\ sz # size
    /\ size' = sz
    /\ effectRuns' = effectRuns + 1
    /\ listeners' =
          ClickSubscribe(ClickCleanup(listeners, effectRuns, size),
                         effectRuns + 1, sz)
    /\ UNCHANGED <<shapeVars, buffers, scrollProgress, zoneVars, rotVars,
                   mouseDownPos, gestures, frameVars, cursorVars, mounted,
                   lateEvents>>

\* The App unmounts: every effect's cleanup runs.
Teardown ==
    /\ mounted
    /\ mounted' = FALSE
    /\ listeners' =
          ScrollCleanup(CursorCleanup(ClickCleanup(listeners, effectRuns, size)))
    /\ UNCHANGED <<shapeVars, buffers, scrollProgress, zoneVars, rotVars,
                   mouseVars, frameVars, cursorVars, effectRuns, lateEvents>>

\* An event nothing is subscribed to.
Unheard ==
    /\ lateEvents' = lateEvents + 1
    /\ UNCHANGED <<shapeVars, buffers, scrollProgress, zoneVars, rotVars,
                   mouseVars, frameVars, cursorVars, listeners, mounted,
                   effectRuns>>

\* The page scrolls: every live ScrollTrigger calls its onUpdate.
ScrollEvent(p) ==
    IF HandlersOf(listeners, "scroll") # <<>> THEN ScrollUpdate(p) ELSE Unheard

\* The window dispatches mousedown, mousemove: every subscribed callback
\* runs (each stores the same values).
WindowMouseDown(cx, cy) ==
    IF HandlersOf(listeners, "mousedown") # <<>> THEN MouseDown(cx, cy)
    ELSE Unheard
WindowMouseMove(cx, cy) ==
    IF HandlersOf(listeners, "mousemove") # <<>> THEN MouseMove(cx, cy)
    ELSE Unheard

\* The velocity after the mouseup callbacks hs have run in turn, each with
\* the size it closed over.
RECURSIVE Released(_, _, _, _)
Released(hs, vel, cx, cy) ==
    IF hs = <<>> THEN vel
    ELSE Released(Tail(hs),
                  [y |-> Impulse(variant, vel.y,
                                 Force(cx - mouseDownPos.x, Head(hs).size.width)),
                   x |-> Impulse(variant, vel.x,
                                 Force(cy - mouseDownPos.y, Head(hs).size.height))],
                  cx, cy)

ReleasedExact(hs, cx, cy) ==
    \A k \in 1..Len(hs) :
        /\ ForceExact(cx - mouseDownPos.x, hs[k].size.width)
        /\ ForceExact(cy - mouseDownPos.y, hs[k].size.height)

\* The window dispatches mouseup.
WindowMouseUp(cx, cy) ==
    LET hs == HandlersOf(listeners, "mouseup")
    IN  IF hs = <<>> THEN Unheard
        ELSE
            /\ rotationVelocity' = Released(hs, rotationVelocity, cx, cy)
            /\ gestures' = gestures + Len(hs)
            /\ UNCHANGED <<shapeVars, buffers, scrollProgress, zoneVars,
                           rotation, mouseDownPos, size, frameVars, cursorVars,
                           sessionVars>>

\* ------------------------------------------------------ specifications

\* Inputs.  Progress values in hundredths: for the zones, every threshold
\* of either version with the value next to it, and the ends.
ZoneProgress == {0, 15, 16, 20, 30, 31, 55, 56, 60, 61}
MorphProgress == {0, 10, 35, 43, 90, 100}
\* Pointer positions, some outside the 800 x 600 viewport (a drag may end
\* there).
MouseXs == {-800, 800}
MouseYs == {0, 600}

ScrollZone == \E p \in ZoneProgress : ScrollUpdate(p)
TickZone == ticks < MaxZoneTicks /\ TickExact /\ Tick
NextZone == ScrollZone \/ TickZone \/ Render
SpecZone == Init /\ [][NextZone]_vars

ScrollMorph == \E p \in MorphProgress : ScrollUpdate(p)
TickMorph == ticks < MaxMorphTicks /\ TickExact /\ Tick
NextMorph == ScrollMorph \/ TickMorph
SpecMorph == Init /\ [][NextMorph]_vars

Press == \E cx \in MouseXs, cy \in MouseYs : MouseDown(cx, cy)
Release ==
    \E cx \in MouseXs, cy \in MouseYs :
        gestures < MaxGestures /\ MouseExact(cx, cy) /\ MouseUp(cx, cy)
TickRot == ticks < MaxRotTicks /\ TickExact /\ Tick
NextRot == Press \/ Release \/ TickRot
SpecRot == Init /\ [][NextRot]_vars

Build == \E rnd \in Draws, ref \in PositionArrays : Mount(rnd, ref)
TickBuild == ticks < MaxZoneTicks /\ TickExact /\ Tick
NextBuild == Build \/ TickBuild
SpecBuild == InitLoading /\ [][NextBuild]_vars

\* Frames at the ends of the blend segments of either version and just
\* after them.
BlendProgress == {0, 1, 33, 34, 35, 36, 66, 67}
ScrollBlend == \E p \in BlendProgress : ScrollUpdate(p)
TickBlend == ticks < MaxZoneTicks /\ TickExact /\ Tick
NextBlend == ScrollBlend \/ TickBlend
SpecBlend == Init /\ [][NextBlend]_vars

\* The cursor follower, with the scroll that takes App.js into the blank
\* zone and out of it.
CursorProgress == {0, 60}
CursorXs == {0, 800}
CursorYs == {0, 600}
MoveCursor == \E cx \in CursorXs, cy \in CursorYs : MouseMove(cx, cy)
FrameCursor == cursorTicks < MaxCursorTicks /\ CursorExact /\ CursorTick
ScrollCursor == \E p \in CursorProgress : ScrollUpdate(p)
TickCursor == ticks < MaxZoneTicks /\ TickExact /\ Tick
NextCursor == MoveCursor \/ FrameCursor \/ ScrollCursor \/ TickCursor \/ Render
SpecCursor == Init /\ [][NextCursor]_vars

\* A session: resizes, events, and the teardown with events after it.
Sizes == {[width |-> 800, height |-> 600], [width |-> 400, height |-> 300]}
SessionProgress == {50}
SessionYs == {600}
EventTypes == {"scroll", "mousedown", "mouseup", "mousemove"}
Late == mounted \/ lateEvents < MaxLateEvents
ResizeSession == \E sz \in Sizes : effectRuns < MaxEffectRuns /\ Resize(sz)
ScrollSession == \E p \in SessionProgress : Late /\ ScrollEvent(p)
DownSession ==
    \E cx \in MouseXs, cy \in MouseYs : Late /\ WindowMouseDown(cx, cy)
MoveSession ==
    \E cx \in CursorXs, cy \in SessionYs : Late /\ WindowMouseMove(cx, cy)
UpSession ==
    \E cx \in MouseXs, cy \in MouseYs :
        /\ Late
        /\ gestures < MaxGestures
        /\ ReleasedExact(HandlersOf(listeners, "mouseup"), cx, cy)
        /\ WindowMouseUp(cx, cy)
NextSession ==
    \/ ResizeSession
    \/ Teardown
    \/ ScrollSession
    \/ DownSession
    \/ MoveSession
    \/ UpSession
SpecSession == Init /\ [][NextSession]_vars

\* ------------------------------------------------------------- claims

\* The live position array.
Pos == buffers[pointsRef]

\* C1: in every reachable state both components of the rotation velocity
\* lie within [-maxVelocity, maxVelocity], whatever drags and frames came
\* before.
C1_VelocityWithinMax ==
    /\ Abs(rotationVelocity.x) <= maxVelocity
    /\ Abs(rotationVelocity.y) <= maxVelocity

\* The zone the three-zone thresholds [0.2, 0.6] give progress p.
ThreeZoneTable(p) ==
    CASE p < 20 -> "cloud"
      [] p >= 20 /\ p <= 60 -> "model"
      [] p > 60 -> "cube"

\* C2: in the three-zone version the zone a frame computes is cloud exactly
\* when p < 0.2, model exactly when 0.2 <= p <= 0.6 and cube exactly when
\* p > 0.6, for every progress in [0, 1] and whatever zone the frame before
\* computed or the component was rendered with.
C2_ThreeZoneThresholds ==
    /\ variant = "three" /\ tickP >= 0 => newZone = ThreeZoneTable(tickP)
    /\ \A p \in 0..PUnit : NewZone("three", p) = ThreeZoneTable(p)

\* A frame at 0.6 computed model although the frame before computed cube.
C2_Witness ==
    /\ variant = "three"
    /\ tickP = 60 /\ newZone = "model"
    /\ prevTickP = 61 /\ prevNewZone = "cube"

\* C3: in both versions every progress yields exactly one zone of the
\* version's ordering, and of two progress values the larger never yields
\* an earlier zone: for the frames taken, and from each hundredth of
\* [0, 1] to the next (so for all pairs).
C3_ZoneMonotoneTotal ==
    /\ tickP >= 0 =>
          Cardinality({k \in 1..Len(ZoneOrder(variant)) :
                          ZoneOrder(variant)[k] = newZone}) = 1
    /\ prevTickP >= 0 /\ prevTickP < tickP =>
          ZoneRank(variant, prevNewZone) <= ZoneRank(variant, newZone)
    /\ prevTickP >= 0 /\ tickP < prevTickP =>
          ZoneRank(variant, newZone) <= ZoneRank(variant, prevNewZone)
    /\ \A p \in 0..(PUnit - 1) :
          ZoneRank(variant, NewZone(variant, p))
              <= ZoneRank(variant, NewZone(variant, p + 1))

\* Two frames of the four-zone version, progress rising across 0.55: cube,
\* then blank.
C3_Witness ==
    /\ variant = "four"
    /\ prevTickP = 55 /\ prevNewZone = "cube"
    /\ tickP = 56 /\ newZone = "blank"

\* C4: the factor a frame hands to lerp, or scales the blank offset by,
\* lies in [0, 1].
C4_FactorWithinUnit ==
    segment \in {"cloud-model", "model-cube", "blank"} =>
        0 <= localP.n /\ localP.n <= localP.d

\* C5: of two consecutive frames at the same progress, the second moves
\* every live component a tenth of the way to the target the first one
\* moved it towards, so the distance to that target is 0.9 of what it was
\* (and 0.81 of what it was before the first).
C5_GeometricApproach ==
    [][(ticks' = ticks + 1 /\ ticks >= 1 /\ tickP = scrollProgress) =>
          \A i \in Flat :
              10 * Abs(Pos'[i] - targetPos[i]) = 9 * Abs(Pos[i] - targetPos[i])]_vars

\* C6: a frame multiplies each velocity component by 0.98: 0.15 becomes
\* 0.147, the magnitude never grows, shrinks when it is not 0, and a
\* component that is not 0 is not 0 afterwards.
C6_FrictionDecay ==
    [][ticks' = ticks + 1 =>
          \A c \in {"x", "y"} :
              LET v == rotationVelocity[c]
                  w == rotationVelocity'[c]
              IN  /\ v % 50 = 0 /\ w = 49 * (v \div 50)
                  /\ Abs(w) <= Abs(v)
                  /\ v # 0 => w # 0 /\ Abs(w) < Abs(v)
                  /\ v = maxVelocity => w = Scale(VelScale, Frac(147, 1000))]_vars

\* A frame has taken velocity.y from 0.15 to 0.147.
C6_Witness ==
    /\ ticks >= 1
    /\ rotationVelocity.y = Scale(VelScale, Frac(147, 1000))

\* C7: once built, the cloud, model and cube arrays hold what useMemo
\* returned, whatever frames, scroll updates and drags came after.
C7_ShapesImmutable ==
    pointsRef # "null" =>
        /\ buffers.cl = constructed.cl
        /\ buffers.ms = constructed.ms
        /\ buffers.cb = constructed.cb

\* C8: setZone is never called twice in a row with the same zone.
C8_ReportsOnlyChanges ==
    \A k \in 1..(Len(reported) - 1) : reported[k] # reported[k + 1]

\* The model points of the particles, as triples.
ModelPoint(q) == [a \in Axes |-> buffers.ms[3 * q + a]]
SourceImages ==
    {ApplyEuler(MultiplyScalar(tempPoints[k], MODEL_CONFIG.scale),
                MODEL_CONFIG.rotation) : k \in 1..Len(tempPoints)}

\* C9: once the arrays are built, without vertices every component of the
\* model array was assigned and holds a value in [0, 1); with vertices
\* every model point is the scaled, turned image of one of them.
C9_ModelShapeFilled ==
    pointsRef # "null" =>
        /\ tempPoints = <<>> =>
              /\ msAssigned = Flat
              /\ \A j \in Flat : 0 <= buffers.ms[j] /\ buffers.ms[j] < PosScale
        /\ tempPoints # <<>> =>
              \A q \in 0..(Count - 1) : ModelPoint(q) \in SourceImages

\* C10: at progress 0 a frame brings every live component that is not at
\* its construction-time cloud value nearer to it (as it must, frame after
\* frame, to come within any epsilon of it).
C10_ReturnsToCloud ==
    [][(ticks' = ticks + 1 /\ scrollProgress = 0) =>
          \A i \in Flat :
              Pos[i] # constructed.cl[i] =>
                  Abs(Pos'[i] - constructed.cl[i]) < Abs(Pos[i] - constructed.cl[i])]_vars

\* C11: every cursor frame that finds the ring and the dot adds
\* rotationSpeed (0.01) to the ring's rotation angle, so the angle grows
\* from frame to frame.
C11_RingSpins ==
    [][cursorTicks' = cursorTicks + 1 =>
          /\ outerRing'.rotation = outerRing.rotation + rotationSpeed
          /\ outerRing'.rotation > outerRing.rotation]_vars

\* The branches of the target computation, in scroll order.
SegmentOrder(v) ==
    IF v = "three" THEN <<"cloud-model", "model-cube", "cube">>
    ELSE <<"cloud-model", "model-cube", "cube", "blank">>
SegmentRank(v, seg) ==
    CHOOSE k \in 1..Len(SegmentOrder(v)) : SegmentOrder(v)[k] = seg

\* C12: the blend schedule has the zone classifier's breakpoints: the
\* branch a frame takes for its targets is the one in its zone's place
\* (cloud-model in cloud, model-cube in model, the held cube in cube, the
\* offset shape in blank), so the branch changes exactly where the zone
\* does.
C12_ScheduleOnZoneBreakpoints ==
    tickP >= 0 => SegmentRank(variant, segment) = ZoneRank(variant, newZone)

\* The shape a blending branch ends at.
SegmentEnd(seg) ==
    IF seg = "cloud-model" THEN constructed.ms ELSE constructed.cb

\* C13: a frame at progress 0 blends with factor 0 (the target is the
\* cloud), and a frame at the last progress of a blending branch blends
\* with factor 1: its targets are the shape the branch ends at, which is
\* where the next branch starts.
C13_SegmentsMeet ==
    /\ tickP = 0 => segment = "cloud-model" /\ localP = Frac(0, 1)
    /\ (/\ tickP >= 0 /\ tickP < PUnit
        /\ segment \in {"cloud-model", "model-cube"}
        /\ Segment(variant, tickP + 1) # segment)
          => localP = Frac(1, 1) /\ targetPos = SegmentEnd(segment)

\* C14: while the App is mounted there is exactly one subscription per
\* event, after teardown none; a mouseup runs one callback and adds one
\* impulse, also after the viewport changed size; and after teardown no
\* event changes scrollProgress, the rotation velocity or the pointer
\* state.
C14_SubscriptionsScoped ==
    /\ [](\A type \in EventTypes :
             Len(HandlersOf(listeners, type)) = IF mounted THEN 1 ELSE 0)
    /\ [][gestures' # gestures =>
             /\ gestures' = gestures + 1
             /\ \E cx \in MouseXs, cy \in MouseYs :
                   rotationVelocity' =
                       [y |-> Impulse(variant, rotationVelocity.y,
                                      Force(cx - mouseDownPos.x, size.width)),
                        x |-> Impulse(variant, rotationVelocity.x,
                                      Force(cy - mouseDownPos.y, size.height))]]_vars
    /\ [][~mounted =>
             UNCHANGED <<scrollProgress, rotationVelocity, mouseDownPos, mouse>>]_vars

\* After a resize to 400 x 300 one release of a 1600 wide drag added one
\* impulse, and after the teardown an event found nothing subscribed.
C14_Witness ==
    /\ ~mounted
    /\ lateEvents >= 1
    /\ effectRuns >= 2
    /\ size.width = 400
    /\ gestures = 1
    /\ rotationVelocity.y = Impulse(variant, 0, Force(1600, 400))

====
